---- MODULE Spec2Model ----
(***************************************************************************)
(* Spaced-repetition scheduler (src/spaced_repetition.py, class SRS).      *)
(*                                                                         *)
(* Units.  An ease factor is held in thousandths (2.5 is 2500): every       *)
(* value the code produces is a whole number of thousandths (2.5, 0.05,    *)
(* 0.02 and the six review adjustments all are), and round(x, 3) returns   *)
(* the thousandth nearest to x, so on these values it changes nothing.     *)
(* The one place where the binary floating point shows is the product      *)
(* round(prev_i * ef), modelled bit-exactly by round_product.              *)
(* A date is a day number; iso() wraps it as the stored ISO string and     *)
(* parse_iso() unwraps it.                                                 *)
(***************************************************************************)
EXTENDS Integers, Sequences, FiniteSets, TLC

\* ---------------------------------------------------------------- inputs
PIDs == {"P1", "P2"}
Difficulties == {-17, 4, 30}
NoteTexts == {"", "n"}
Qualities == -1 .. 6

\* Spec: the last day the calendar reaches, the number of mutations performed.
MaxDay == 4
MaxOps == 2
\* LifeSpec, CrashSpec: the number of mutations performed on the one item.
MaxLife == 4
\* PlanSpec: the number of mutations performed.
MaxPlanOps == 4
\* DeepSpec: the number of mutations performed on the one item.
MaxDeep == 5

\* Python's None (a value no date or ISO string equals).
None == [none |-> TRUE]

VARIABLES
    problems,   \* self.db["problems"]: the records, in dict insertion order
    store,      \* the backing store as last written by _persist
    today,      \* date.today(), as a day number
    nops,       \* number of mutations performed so far (bounded by MaxOps)
    call,       \* the most recent invocation on the current day and its outcome
    old,        \* self.db["problems"] as it was when that invocation started
    hist        \* per id: the day it was created, the day it was reset by a
                \* repeated add_solved since its creation or last review (-1: not),
                \* and the successful reviews in a row since its creation, last
                \* lapse or last reset

vars == <<problems, store, today, nops, call, old, hist>>

\* ---------------------------------------------------------------- utility
Max(a, b) == IF a >= b THEN a ELSE b

\* iso() of a date (the class never passes it None).
iso(d) == [isoformat |-> d]

parse_iso(s) == IF s = None THEN None ELSE s.isoformat

Abs(x) == IF x >= 0 THEN x ELSE -x

RECURSIVE Pow2(_)
Pow2(n) == IF n <= 0 THEN 1 ELSE 2 * Pow2(n - 1)

\* 2^n modulo m.
RECURSIVE Pow2Mod(_, _)
Pow2Mod(n, m) == IF n = 0 THEN 1 % m ELSE (2 * Pow2Mod(n - 1, m)) % m

\* The binary exponent of n / d >= 1: the e with 2^e <= n / d < 2^(e+1).
RECURSIVE FloorLog2(_, _)
FloorLog2(n, d) == IF n < 2 * d THEN 0 ELSE 1 + FloorLog2(n, 2 * d)

\* The sign and size of the error of the IEEE double nearest ef / 1000, in units
\* of 1 / (1000 * 2^(52 - E)), E the binary exponent of ef / 1000: the double is
\* m * 2^(E - 52) with m the integer nearest ef * 2^(52 - E) / 1000.
double_error(ef) ==
    LET rho == ((ef % 1000) * Pow2Mod(52 - FloorLog2(ef, 1000), 1000)) % 1000
    IN  IF rho < 500 THEN -rho ELSE 1000 - rho

\* round(prev_i * ef): Python's round() of the double product of the integer
\* prev_i and the double nearest ef / 1000.  Off a tie the double product lies on
\* the same side of the half as the exact one.  On an exact tie n + 1/2 the double
\* product is n + 1/2 itself when the error carried by ef is within half a unit
\* in the last place of n + 1/2, and round() then goes to the even neighbour;
\* otherwise the product falls beside the half and round() follows it.
round_product(prev_i, ef) ==
    LET n == (prev_i * ef) \div 1000
        r == (prev_i * ef) % 1000
        w == prev_i * double_error(ef)
        h == 500 * Pow2(FloorLog2(n, 1) - FloorLog2(ef, 1000))
    IN  IF r # 500 THEN (IF r > 500 THEN n + 1 ELSE n)
        ELSE IF Abs(w) <= h THEN (IF n % 2 = 0 THEN n ELSE n + 1)
        ELSE IF w > 0 THEN n + 1 ELSE n

\* ---------------------------------------------------------------- the dict
Has(probs, pid) == \E i \in 1 .. Len(probs) : probs[i].id = pid

Index(probs, pid) == CHOOSE i \in 1 .. Len(probs) : probs[i].id = pid

Get(probs, pid) == probs[Index(probs, pid)]

\* probs[pid] = e: an existing key keeps its place, a new key goes last.
Put(probs, pid, e) ==
    IF Has(probs, pid)
    THEN [probs EXCEPT ![Index(probs, pid)] = e]
    ELSE Append(probs, e)

\* ---------------------------------------------------------------- core logic
\* make_entry with the floor of the ease factor left out.
make_entry_NoFloor(pid, diff, day) ==
    [id          |-> pid,
     difficulty  |-> diff,
     ef          |-> 2500 - 50 * (diff - 3),
     reps        |-> 0,
     interval    |-> 3,
     last_review |-> None,
     next_review |-> iso(day + 3),
     notes       |-> ""]

make_entry(pid, diff, day) ==
    [id          |-> pid,
     difficulty  |-> diff,
     ef          |-> Max(1300, 2500 - 50 * (diff - 3)),
     reps        |-> 0,
     interval    |-> 3,
     last_review |-> None,
     next_review |-> iso(day + 3),
     notes       |-> ""]

\* The reset taking the ease factor of a fresh record instead of the record's own.
reset_entry_Fresh(e, diff, notes, day) ==
    [e EXCEPT !.difficulty  = diff,
              !.notes       = IF notes # "" THEN notes ELSE e.notes,
              !.ef          = Max(1300, 2500 - 20 * (diff - 3)),
              !.reps        = 0,
              !.interval    = 3,
              !.next_review = iso(day + 3)]

\* The reset replacing the notes even by empty ones.
reset_entry_ReplacesNotes(e, diff, notes, day) ==
    [e EXCEPT !.difficulty  = diff,
              !.notes       = notes,
              !.ef          = Max(1300, e.ef - 20 * (diff - 3)),
              !.reps        = 0,
              !.interval    = 3,
              !.next_review = iso(day + 3)]

\* The reset leaving the repetitions as they were.
reset_entry_KeepsReps(e, diff, notes, day) ==
    [e EXCEPT !.difficulty  = diff,
              !.notes       = IF notes # "" THEN notes ELSE e.notes,
              !.ef          = Max(1300, e.ef - 20 * (diff - 3)),
              !.interval    = 3,
              !.next_review = iso(day + 3)]

\* The reset leaving the interval as it was.
reset_entry_KeepsInterval(e, diff, notes, day) ==
    [e EXCEPT !.difficulty  = diff,
              !.notes       = IF notes # "" THEN notes ELSE e.notes,
              !.ef          = Max(1300, e.ef - 20 * (diff - 3)),
              !.reps        = 0,
              !.next_review = iso(day + e.interval)]

\* The e.update({...}) of add_solved on an existing record.
reset_entry(e, diff, notes, day) ==
    [e EXCEPT !.difficulty  = diff,
              !.notes       = IF notes # "" THEN notes ELSE e.notes,
              !.ef          = Max(1300, e.ef - 20 * (diff - 3)),
              !.reps        = 0,
              !.interval    = 3,
              !.next_review = iso(day + 3)]

\* The lapse threshold one too low: quality 2 counted as a success.
review_reps_Threshold(e, q) == IF q < 2 THEN 0 ELSE e.reps + 1

\* reps and interval after a review of quality q.
review_reps(e, q) == IF q < 3 THEN 0 ELSE e.reps + 1

\* The ease factor of a review with the floor left out.
review_ef_NoFloor(e, q) ==
    e.ef + (100 - (5 - q) * (80 + (5 - q) * 20))

\* The ease factor adjusted on a success only.
review_ef_SuccessOnly(e, q) ==
    IF q < 3 THEN e.ef
    ELSE Max(1300, e.ef + (100 - (5 - q) * (80 + (5 - q) * 20)))

\* The interval grown by the ease factor as updated by this review.
review_interval_NewEf(e, q) ==
    IF q < 3 THEN 3
    ELSE IF review_reps(e, q) = 1 THEN 10
    ELSE Max(1, round_product(e.interval,
                 Max(1300, e.ef + (100 - (5 - q) * (80 + (5 - q) * 20)))))

\* A lapse making the record due again at once.
review_interval_LapseZero(e, q) ==
    IF q < 3 THEN 0
    ELSE IF review_reps(e, q) = 1 THEN 10
    ELSE Max(1, round_product(e.interval, e.ef))

\* The first success scheduled one day ahead.
review_interval_FirstOne(e, q) ==
    IF q < 3 THEN 3
    ELSE IF review_reps(e, q) = 1 THEN 1
    ELSE Max(1, round_product(e.interval, e.ef))

review_interval(e, q) ==
    IF q < 3 THEN 3
    ELSE IF review_reps(e, q) = 1 THEN 10
    ELSE Max(1, round_product(e.interval, e.ef))

review_ef(e, q) ==
    Max(1300, e.ef + (100 - (5 - q) * (80 + (5 - q) * 20)))

\* next_review taken from the interval the record had before the review.
review_entry_OldInterval(e, q, day) ==
    [e EXCEPT !.ef          = review_ef(e, q),
              !.reps        = review_reps(e, q),
              !.interval    = review_interval(e, q),
              !.last_review = iso(day),
              !.next_review = iso(day + e.interval)]

\* The e.update({...}) of record_review.
review_entry(e, q, day) ==
    [e EXCEPT !.ef          = review_ef(e, q),
              !.reps        = review_reps(e, q),
              !.interval    = review_interval(e, q),
              !.last_review = iso(day),
              !.next_review = iso(day + review_interval(e, q))]

\* ---------------------------------------------------------------- queries
\* The sort key with the difficulty ascending.
due_key_EasyFirst(p, d) ==
    <<IF p.next_review = None THEN d ELSE parse_iso(p.next_review), p.difficulty>>

\* The sort key of get_due: (next_review or today, -difficulty).
due_key(p, d) ==
    <<IF p.next_review = None THEN d ELSE parse_iso(p.next_review), -p.difficulty>>

KeyLE(a, b) == a[1] < b[1] \/ (a[1] = b[1] /\ a[2] <= b[2])

\* x put into the sorted s behind every element whose key is not greater:
\* list.sort is stable.
sort_insert(s, x, d) ==
    LET after == {j \in 1 .. Len(s) : ~ KeyLE(due_key(s[j], d), due_key(x, d))}
        pos   == IF after = {} THEN Len(s) + 1
                 ELSE CHOOSE j \in after : \A k \in after : j <= k
    IN  SubSeq(s, 1, pos - 1) \o <<x>> \o SubSeq(s, pos, Len(s))

RECURSIVE sort_due(_, _)
sort_due(s, d) ==
    IF s = <<>> THEN <<>>
    ELSE sort_insert(sort_due(SubSeq(s, 1, Len(s) - 1), d), s[Len(s)], d)

\* A record counted as due only from the day after its next_review.
is_due_Strict(p, d) == p.next_review = None \/ parse_iso(p.next_review) < d

\* The filter of get_due.
is_due(p, d) == p.next_review = None \/ parse_iso(p.next_review) <= d

get_due(probs, d) ==
    LET Due(p) == is_due(p, d)
    IN  sort_due(SelectSeq(probs, Due), d)

\* The counts of study_plan_summary before any record is counted.
NoCounts ==
    [overdue |-> 0, due_today |-> 0, due_tomorrow |-> 0,
     next_7_days |-> 0, next_30_days |-> 0, total |-> 0]

\* count_record with an overdue record counted as overdue alone.
count_record_Exclusive(c, p, d0) ==
    LET t  == [c EXCEPT !.total = @ + 1]
        nr == parse_iso(p.next_review)
    IN  IF p.next_review = None THEN [t EXCEPT !.due_today = @ + 1]
        ELSE IF nr < d0 THEN [t EXCEPT !.overdue = @ + 1]
        ELSE IF nr = d0 THEN [t EXCEPT !.due_today = @ + 1]
        ELSE IF nr = d0 + 1 THEN [t EXCEPT !.due_tomorrow = @ + 1]
        ELSE IF d0 + 1 < nr /\ nr <= d0 + 7 THEN [t EXCEPT !.next_7_days = @ + 1]
        ELSE IF d0 + 7 < nr /\ nr <= d0 + 30 THEN [t EXCEPT !.next_30_days = @ + 1]
        ELSE t

\* count_record with the buckets cut as on the day before d0.
count_record_DayEarly(c, p, d0) ==
    LET t  == [c EXCEPT !.total = @ + 1]
        nr == parse_iso(p.next_review)
    IN  IF p.next_review = None THEN [t EXCEPT !.due_today = @ + 1]
        ELSE IF nr < d0 - 1 THEN [t EXCEPT !.overdue = @ + 1, !.due_today = @ + 1]
        ELSE IF nr = d0 - 1 THEN [t EXCEPT !.due_today = @ + 1]
        ELSE IF nr = d0 THEN [t EXCEPT !.due_tomorrow = @ + 1]
        ELSE IF d0 < nr /\ nr <= d0 + 6 THEN [t EXCEPT !.next_7_days = @ + 1]
        ELSE IF d0 + 6 < nr /\ nr <= d0 + 29 THEN [t EXCEPT !.next_30_days = @ + 1]
        ELSE t

\* One pass of the loop of study_plan_summary: the counts c with p counted.
count_record(c, p, d0) ==
    LET t  == [c EXCEPT !.total = @ + 1]
        nr == parse_iso(p.next_review)
    IN  IF p.next_review = None THEN [t EXCEPT !.due_today = @ + 1]
        ELSE IF nr < d0 THEN [t EXCEPT !.overdue = @ + 1, !.due_today = @ + 1]
        ELSE IF nr = d0 THEN [t EXCEPT !.due_today = @ + 1]
        ELSE IF nr = d0 + 1 THEN [t EXCEPT !.due_tomorrow = @ + 1]
        ELSE IF d0 + 1 < nr /\ nr <= d0 + 7 THEN [t EXCEPT !.next_7_days = @ + 1]
        ELSE IF d0 + 7 < nr /\ nr <= d0 + 30 THEN [t EXCEPT !.next_30_days = @ + 1]
        ELSE t

RECURSIVE study_plan_summary(_, _)
study_plan_summary(probs, d0) ==
    IF probs = <<>> THEN NoCounts
    ELSE count_record(study_plan_summary(SubSeq(probs, 1, Len(probs) - 1), d0),
                      probs[Len(probs)], d0)

\* ---------------------------------------------------------------- state
NoCall == [op |-> "none"]

Init ==
    /\ problems = <<>>
    /\ store = <<>>
    /\ today = 0
    /\ nops = 0
    /\ call = NoCall
    /\ old = <<>>
    /\ hist = [p \in {} |-> 0]

\* add_solved returning without its _persist().
AddSolved_NoPersist(pid, diff, notes) ==
    /\ LET e == IF Has(problems, pid)
                THEN reset_entry(Get(problems, pid), diff, notes, today)
                ELSE [make_entry(pid, diff, today) EXCEPT !.notes = notes]
       IN  /\ problems' = Put(problems, pid, e)
           /\ store' = store
    /\ hist' = IF Has(problems, pid)
               THEN [hist EXCEPT ![pid].reset = today, ![pid].streak = 0]
               ELSE [p \in DOMAIN hist \cup {pid} |->
                        IF p = pid THEN [created |-> today, reset |-> -1, streak |-> 0]
                        ELSE hist[p]]
    /\ call' = [op |-> "add", pid |-> pid, diff |-> diff, notes |-> notes,
                outcome |-> "ok"]
    /\ old' = problems
    /\ nops' = nops + 1
    /\ UNCHANGED today

\* add_solved(pid, diff, notes), _persist included.
AddSolved(pid, diff, notes) ==
    /\ LET e == IF Has(problems, pid)
                THEN reset_entry(Get(problems, pid), diff, notes, today)
                ELSE [make_entry(pid, diff, today) EXCEPT !.notes = notes]
       IN  /\ problems' = Put(problems, pid, e)
           /\ store' = Put(problems, pid, e)
    /\ hist' = IF Has(problems, pid)
               THEN [hist EXCEPT ![pid].reset = today, ![pid].streak = 0]
               ELSE [p \in DOMAIN hist \cup {pid} |->
                        IF p = pid THEN [created |-> today, reset |-> -1, streak |-> 0]
                        ELSE hist[p]]
    /\ call' = [op |-> "add", pid |-> pid, diff |-> diff, notes |-> notes,
                outcome |-> "ok"]
    /\ old' = problems
    /\ nops' = nops + 1
    /\ UNCHANGED today

\* record_review checking the quality only after it has updated the record.
RecordReview_LateCheck(pid, q) ==
    /\ old' = problems
    /\ UNCHANGED today
    /\ IF ~ Has(problems, pid)
       THEN /\ call' = [op |-> "review", pid |-> pid, q |-> q, outcome |-> "KeyError"]
            /\ UNCHANGED <<problems, store, nops, hist>>
       ELSE IF ~ (0 <= q /\ q <= 5)
       THEN /\ problems' = Put(problems, pid, review_entry(Get(problems, pid), q, today))
            /\ call' = [op |-> "review", pid |-> pid, q |-> q, outcome |-> "ValueError"]
            /\ UNCHANGED <<store, nops, hist>>
       ELSE /\ problems' = Put(problems, pid, review_entry(Get(problems, pid), q, today))
            /\ store' = Put(problems, pid, review_entry(Get(problems, pid), q, today))
            /\ hist' = [hist EXCEPT ![pid].reset = -1,
                                  ![pid].streak = IF q >= 3 THEN @ + 1 ELSE 0]
            /\ call' = [op |-> "review", pid |-> pid, q |-> q, outcome |-> "ok"]
            /\ nops' = nops + 1

\* record_review(pid, q), _persist included.
RecordReview(pid, q) ==
    /\ old' = problems
    /\ UNCHANGED today
    /\ IF ~ Has(problems, pid)
       THEN /\ call' = [op |-> "review", pid |-> pid, q |-> q, outcome |-> "KeyError"]
            /\ UNCHANGED <<problems, store, nops, hist>>
       ELSE IF ~ (0 <= q /\ q <= 5)
       THEN /\ call' = [op |-> "review", pid |-> pid, q |-> q, outcome |-> "ValueError"]
            /\ UNCHANGED <<problems, store, nops, hist>>
       ELSE /\ problems' = Put(problems, pid, review_entry(Get(problems, pid), q, today))
            /\ store' = Put(problems, pid, review_entry(Get(problems, pid), q, today))
            /\ hist' = [hist EXCEPT ![pid].reset = -1,
                                  ![pid].streak = IF q >= 3 THEN @ + 1 ELSE 0]
            /\ call' = [op |-> "review", pid |-> pid, q |-> q, outcome |-> "ok"]
            /\ nops' = nops + 1

\* Whether record_review(pid, q) gets past its two checks and mutates.
Reviews(pid, q) == Has(problems, pid) /\ 0 <= q /\ q <= 5

\* add_solved(pid, diff, notes) in a process that dies after the update in
\* memory and before _persist(): the file is as it was, the update (kept in
\* call.lost) is gone with the process, and the next process loads the file.
AddSolvedCrash(pid, diff, notes) ==
    /\ LET e == IF Has(problems, pid)
                THEN reset_entry(Get(problems, pid), diff, notes, today)
                ELSE [make_entry(pid, diff, today) EXCEPT !.notes = notes]
       IN  call' = [op |-> "add", pid |-> pid, diff |-> diff, notes |-> notes,
                    outcome |-> "crash", lost |-> Put(problems, pid, e)]
    /\ problems' = store
    /\ old' = problems
    /\ UNCHANGED <<store, today, nops, hist>>

\* record_review(pid, q) in a process that dies after the update in memory and
\* before _persist().
RecordReviewCrash(pid, q) ==
    /\ Reviews(pid, q)
    /\ call' = [op |-> "review", pid |-> pid, q |-> q, outcome |-> "crash",
                lost |-> Put(problems, pid, review_entry(Get(problems, pid), q, today))]
    /\ problems' = store
    /\ old' = problems
    /\ UNCHANGED <<store, today, nops, hist>>

\* get_due keeping the due list as the collection.
GetDue_Prunes ==
    /\ call' = [op |-> "due", outcome |-> "ok", result |-> get_due(problems, today)]
    /\ old' = problems
    /\ problems' = get_due(problems, today)
    /\ UNCHANGED <<store, today, nops, hist>>

\* get_due(): the CLI's "due" command.
GetDue ==
    /\ call' = [op |-> "due", outcome |-> "ok", result |-> get_due(problems, today)]
    /\ old' = problems
    /\ UNCHANGED <<problems, store, today, nops, hist>>

\* study_plan_summary(): the CLI's "plan" command.
StudyPlan ==
    /\ call' = [op |-> "plan", outcome |-> "ok",
                result |-> study_plan_summary(problems, today)]
    /\ old' = problems
    /\ UNCHANGED <<problems, store, today, nops, hist>>

\* The calendar moves on by k days between two invocations.
Tick(k) ==
    /\ today' = today + k
    /\ call' = NoCall
    /\ old' = problems
    /\ UNCHANGED <<problems, store, nops, hist>>

\* Several items over consecutive days.
Next ==
    \/ /\ nops < MaxOps
       /\ \E pid \in PIDs, diff \in Difficulties : AddSolved(pid, diff, "")
    \/ \E pid \in PIDs, q \in Qualities :
          /\ Reviews(pid, q) => nops < MaxOps
          /\ RecordReview(pid, q)
    \/ GetDue
    \/ StudyPlan
    \/ today + 1 <= MaxDay /\ Tick(1)

Spec == Init /\ [][Next]_vars

\* The life of one item, "P1" ("P2" is never added), the learner coming back
\* when the first review is due.
LifeNext ==
    \/ /\ nops < MaxLife
       /\ \E diff \in Difficulties, notes \in NoteTexts : AddSolved("P1", diff, notes)
    \/ \E pid \in PIDs, q \in Qualities :
          /\ Reviews(pid, q) => nops < MaxLife
          /\ RecordReview(pid, q)
    \/ GetDue
    \/ StudyPlan
    \/ today + 3 <= MaxDay /\ Tick(3)

LifeSpec == Init /\ [][LifeNext]_vars

\* Two items of a learner who finds them easy (difficulty -17) and grades a
\* review 2 or 5, over consecutive days.
PlanNext ==
    \/ /\ nops < MaxPlanOps
       /\ \E pid \in PIDs : AddSolved(pid, -17, "")
    \/ \E pid \in PIDs, q \in {2, 5} :
          /\ Reviews(pid, q) => nops < MaxPlanOps
          /\ RecordReview(pid, q)
    \/ GetDue
    \/ StudyPlan
    \/ today + 1 <= MaxDay /\ Tick(1)

PlanSpec == Init /\ [][PlanNext]_vars

\* One item ("P2" is never added) of difficulty 4, graded 2, 5 or by mistake
\* -1, over consecutive days, by processes that may die before they save.
CrashNext ==
    \/ /\ nops < MaxLife
       /\ AddSolved("P1", 4, "")
    \/ \E pid \in PIDs, q \in {-1, 2, 5} :
          /\ Reviews(pid, q) => nops < MaxLife
          /\ RecordReview(pid, q)
    \/ AddSolvedCrash("P1", 4, "")
    \/ \E q \in {2, 5} : RecordReviewCrash("P1", q)
    \/ GetDue
    \/ StudyPlan
    \/ today + 1 <= MaxDay /\ Tick(1)

CrashSpec == Init /\ [][CrashNext]_vars

\* One item of difficulty 4 reviewed again and again on the day it was added.
DeepNext ==
    \/ /\ nops < MaxDeep
       /\ AddSolved("P1", 4, "")
    \/ \E q \in 0 .. 5 :
          /\ Reviews("P1", q) => nops < MaxDeep
          /\ RecordReview("P1", q)

DeepSpec == Init /\ [][DeepNext]_vars

\* ---------------------------------------------------------------- properties
\* The record of the last invocation's id, before and after it.
Before == Get(old, call.pid)

After == Get(problems, call.pid)

ReviewDone == call.op = "review" /\ call.outcome = "ok"

ResetDone == call.op = "add" /\ call.outcome = "ok" /\ Has(old, call.pid)

CreateDone == call.op = "add" /\ call.outcome = "ok" /\ ~ Has(old, call.pid)

\* C1: in every state reached from the empty collection by add_solved and
\* record_review, every record's ease factor is at least 1.3.
C1_EaseFloor == \A i \in 1 .. Len(problems) : problems[i].ef >= 1300

\* A review of quality 0 whose adjustment alone would have gone below the floor.
C1_Witness ==
    /\ ReviewDone /\ call.q = 0
    /\ Before.ef - 800 < 1300
    /\ After.ef = 1300

\* C2 as stated: next_review is last_review + interval when last_review is set,
\* and the creation date + interval when it is absent.
C2_Original ==
    \A i \in 1 .. Len(problems) :
        LET p == problems[i]
        IN  parse_iso(p.next_review) =
                (IF p.last_review # None THEN parse_iso(p.last_review)
                 ELSE hist[p.id].created) + p.interval

\* C2 amended: next_review is D + interval, D being the day of the record's last
\* reset if it was reset since its creation or last review, else last_review if
\* that is set, else the creation date.
C2_NextReview ==
    \A i \in 1 .. Len(problems) :
        LET p == problems[i]
            h == hist[p.id]
        IN  parse_iso(p.next_review) =
                (IF h.reset >= 0 THEN h.reset
                 ELSE IF p.last_review # None THEN parse_iso(p.last_review)
                 ELSE h.created) + p.interval

\* A record reviewed on one day and reset on a later one.
C2_Witness ==
    /\ ResetDone
    /\ After.last_review # None
    /\ parse_iso(After.last_review) < today
    /\ parse_iso(After.next_review) = today + 3

\* C3: record_review raises KeyError for an id that is not in the collection, and
\* ValueError for a known id with a quality outside 0..5; after either, the
\* collection and the backing store are what they were before the call.
C3_ReviewFailsCleanly ==
    call.op = "review" =>
        /\ ~ Has(old, call.pid) => call.outcome = "KeyError"
        /\ (Has(old, call.pid) /\ (call.q < 0 \/ call.q > 5)) => call.outcome = "ValueError"
        /\ call.outcome \in {"KeyError", "ValueError"} => problems = old /\ store = old

\* A review of quality 6 refused on a record that had been reviewed before.
C3_Witness ==
    /\ call.op = "review" /\ call.outcome = "ValueError" /\ call.q = 6
    /\ Before.reps >= 1
    /\ problems = old

\* C4: a review of quality below 3 leaves the record with reps 0 and interval 3,
\* whatever they and the ease factor were.
C4_Lapse ==
    (ReviewDone /\ call.q < 3) => After.reps = 0 /\ After.interval = 3

\* A lapse after two successes in a row.
C4_Witness ==
    /\ ReviewDone /\ call.q < 3
    /\ Before.reps >= 2 /\ Before.interval > 10
    /\ After.reps = 0 /\ After.interval = 3

\* C5: a review of quality 3 or more adds one to reps; the interval becomes 10
\* when reps becomes 1, and otherwise max(1, round(interval * ef)) of the interval
\* and ease factor the record had before the review.
C5_Growth ==
    (ReviewDone /\ call.q >= 3) =>
        /\ After.reps = Before.reps + 1
        /\ After.reps = 1 => After.interval = 10
        /\ After.reps # 1 =>
              After.interval = Max(1, round_product(Before.interval, Before.ef))

\* A second success in a row whose ease factor rises, so that the ease factor
\* before and the one after give different intervals.
C5_Witness ==
    /\ ReviewDone /\ call.q = 5
    /\ After.reps = 2 /\ Before.interval = 10
    /\ After.interval = round_product(10, Before.ef)
    /\ After.interval # round_product(10, After.ef)

\* The adjustment of the ease factor, in thousandths, for each quality.
C6_Delta(q) ==
    CASE q = 5 -> 100
      [] q = 4 -> 0
      [] q = 3 -> -140
      [] q = 2 -> -320
      [] q = 1 -> -540
      [] q = 0 -> -800

\* C6: every successful review, lapse or not, sets the ease factor to the old one
\* plus +0.1, 0, -0.14, -0.32, -0.54, -0.8 for quality 5..0, but not below 1.3;
\* it sets last_review to today and next_review to today + the new interval.
C6_EaseUpdate ==
    ReviewDone =>
        /\ After.ef = Max(1300, Before.ef + C6_Delta(call.q))
        /\ After.last_review = iso(today)
        /\ parse_iso(After.next_review) = today + After.interval

\* A lapse on a later day that lowers the ease factor without touching the floor.
C6_Witness ==
    /\ ReviewDone /\ call.q = 2
    /\ today > 0
    /\ After.ef = Before.ef - 320
    /\ After.next_review = iso(today + 3)

\* C7: add_solved on an id not in the collection appends one record with
\* ef = max(1.3, 2.5 - 0.05 * (difficulty - 3)), reps 0, interval 3, no
\* last_review, next_review = today + 3 and the given notes.
C7_Create ==
    CreateDone =>
        /\ problems = Append(old,
              [id          |-> call.pid,
               difficulty  |-> call.diff,
               ef          |-> Max(1300, 2500 - 50 * (call.diff - 3)),
               reps        |-> 0,
               interval    |-> 3,
               last_review |-> None,
               next_review |-> iso(today + 3),
               notes       |-> call.notes])

\* A creation on a later day, with notes, of a difficulty that hits the floor.
C7_Witness ==
    /\ CreateDone /\ call.diff = 30 /\ call.notes = "n"
    /\ today > 0
    /\ After.ef = 1300 /\ After.next_review = iso(today + 3)

\* C8: add_solved on an id in the collection adds no record; it replaces the
\* difficulty, sets ef to max(1.3, old ef - 0.02 * (difficulty - 3)), reps to 0,
\* interval to 3 and next_review to today + 3.
C8_Reset ==
    ResetDone =>
        /\ Len(problems) = Len(old)
        /\ After.difficulty = call.diff
        /\ After.ef = Max(1300, Before.ef - 20 * (call.diff - 3))
        /\ After.reps = 0
        /\ After.interval = 3
        /\ After.next_review = iso(today + 3)

\* A reset after two successes in a row, of an ease factor no fresh record has.
C8_Witness ==
    /\ ResetDone /\ call.diff = 4
    /\ Before.reps >= 2 /\ Before.interval > 10
    /\ Before.ef # 2450
    /\ After.ef = Before.ef - 20
    /\ After.reps = 0 /\ After.interval = 3

\* C9: a reset leaves the record's id and last_review as they were, keeps the
\* notes when the new notes are empty and replaces them when they are not.
C9_ResetFrame ==
    ResetDone =>
        /\ After.id = Before.id
        /\ After.last_review = Before.last_review
        /\ After.notes = (IF call.notes = "" THEN Before.notes ELSE call.notes)

\* A reset with empty notes, on a later day than the review, of a record that
\* had notes.
C9_Witness ==
    /\ ResetDone /\ call.notes = ""
    /\ Before.notes = "n" /\ After.notes = "n"
    /\ Before.last_review # None
    /\ parse_iso(Before.last_review) < today
    /\ After.last_review = Before.last_review

\* The date a record sorts by in the due list.
C10_Date(p) == IF p.next_review = None THEN today ELSE parse_iso(p.next_review)

\* C10: get_due returns each record whose next_review is absent or not after
\* today, once, and no other; in the order of next_review, and of decreasing
\* difficulty among records of the same next_review.
C10_DueList ==
    call.op = "due" =>
        LET r == call.result
        IN  /\ \A i \in 1 .. Len(problems) :
                  (problems[i].next_review = None \/ parse_iso(problems[i].next_review) <= today)
                      <=> (\E j \in 1 .. Len(r) : r[j] = problems[i])
            /\ \A j \in 1 .. Len(r) : \E i \in 1 .. Len(problems) : problems[i] = r[j]
            /\ \A j, k \in 1 .. Len(r) : j # k => r[j].id # r[k].id
            /\ \A j, k \in 1 .. Len(r) : j < k =>
                  \/ C10_Date(r[j]) < C10_Date(r[k])
                  \/ /\ C10_Date(r[j]) = C10_Date(r[k])
                     /\ r[j].difficulty >= r[k].difficulty

\* Two records due on the same day, the harder one added second and listed first.
C10_Witness ==
    /\ call.op = "due"
    /\ Len(call.result) = 2
    /\ call.result[1] = problems[2]
    /\ call.result[1].next_review = call.result[2].next_review
    /\ call.result[1].difficulty > call.result[2].difficulty

\* The number of records whose next_review is set and lies from day lo to day hi.
C11_Count(lo, hi) ==
    Cardinality({i \in 1 .. Len(problems) :
        /\ problems[i].next_review # None
        /\ lo <= parse_iso(problems[i].next_review)
        /\ parse_iso(problems[i].next_review) <= hi})

C11_Absent == Cardinality({i \in 1 .. Len(problems) : problems[i].next_review = None})

\* C11: study_plan_summary counts every record in total, a record with
\* next_review before today in overdue and in due_today, of today or absent in
\* due_today, of tomorrow in due_tomorrow, of day 2..7 from today in next_7_days,
\* of day 8..30 in next_30_days, and a later one in total alone; so that
\* overdue <= due_today and the four other counts add up to at most total.
C11_Buckets ==
    call.op = "plan" =>
        LET c == call.result
        IN  /\ c.total = Len(problems)
            /\ c.overdue = C11_Count(-1000000, today - 1)
            /\ c.due_today = C11_Count(-1000000, today) + C11_Absent
            /\ c.due_tomorrow = C11_Count(today + 1, today + 1)
            /\ c.next_7_days = C11_Count(today + 2, today + 7)
            /\ c.next_30_days = C11_Count(today + 8, today + 30)
            /\ c.overdue <= c.due_today
            /\ c.due_today + c.due_tomorrow + c.next_7_days + c.next_30_days <= c.total

\* Two records, one overdue and one more than 30 days away.
C11_Witness ==
    /\ call.op = "plan"
    /\ call.result.total = 2
    /\ call.result.overdue = 1 /\ call.result.due_today = 1
    /\ call.result.due_tomorrow = 0
    /\ call.result.next_7_days = 0 /\ call.result.next_30_days = 0

\* C12: get_due and study_plan_summary leave the collection as it was: after
\* either query the records, their fields and their order are those of before,
\* the backing store is untouched, and the query asked again on the same date
\* returns the same result.
C12_QueriesPure ==
    call.op \in {"due", "plan"} =>
        /\ problems = old
        /\ store = old
        /\ call.op = "due" => get_due(problems, today) = call.result
        /\ call.op = "plan" => study_plan_summary(problems, today) = call.result

\* A due query that returned one of two records.
C12_Witness ==
    /\ call.op = "due"
    /\ Len(call.result) = 1
    /\ Len(old) = 2

\* C13: the repetitions of a record is a natural number, and it is the number
\* of reviews of quality 3 or more on its id that came one after the other
\* since the record was created, last reviewed with a quality under 3, or last
\* reset by add_solved, whichever came last.
C13_Streak ==
    \A i \in 1 .. Len(problems) :
        /\ problems[i].reps \in Nat
        /\ problems[i].reps = hist[problems[i].id].streak

\* Two successes in a row after an earlier lapse or reset of the record.
C13_Witness ==
    /\ ReviewDone
    /\ After.reps = 2
    /\ hist[call.pid].streak = 2
    /\ nops = 4

\* C14: the interval of every record is an integer of at least 1.
C14_IntervalPositive ==
    \A i \in 1 .. Len(problems) :
        /\ problems[i].interval \in Int
        /\ problems[i].interval >= 1

\* A record whose interval is the rounded product of a lapse-free second success.
C14_Witness ==
    /\ ReviewDone
    /\ call.q >= 3
    /\ Before.reps = 1
    /\ After.interval = round_product(10, Before.ef)
    /\ After.interval > 30

\* C15: the backing store is written by the _persist() that ends a successful
\* add_solved or record_review and by nothing else: after such a call the store
\* holds the collection in memory, with the call's record in it; after a
\* record_review that raised, a query, or a process that died before its
\* _persist(), the store is what it was (the last saved collection, which is
\* what the invocation had loaded).
C15_Store ==
    /\ store = problems
    /\ (call.op \in {"add", "review"} /\ call.outcome = "ok") =>
            /\ Has(store, call.pid)
            /\ store = Put(old, call.pid, After)
    /\ call.op \in {"due", "plan"} => store = old
    /\ (call.op \in {"add", "review"} /\ call.outcome \in {"KeyError", "ValueError", "crash"}) =>
            store = old

\* A review that died before saving, after a saved one had changed the store.
C15_Witness ==
    /\ call.op = "review"
    /\ call.outcome = "crash"
    /\ Get(call.lost, call.pid).reps = 2
    /\ Get(store, call.pid).reps = 1
    /\ Get(store, call.pid).last_review # iso(today)

\* C16: when a successful review that brings the repetitions above 1 finds the
\* interval times the ease factor exactly halfway between two integers, the new
\* interval is the even one of the two (10 times 2.45 gives 24), at every such
\* tie.
C16_TiesToEven ==
    (/\ ReviewDone
     /\ call.q >= 3
     /\ After.reps > 1
     /\ (Before.interval * Before.ef) % 1000 = 500)
        => /\ After.interval % 2 = 0
           /\ Abs(After.interval * 1000 - Before.interval * Before.ef) = 500

\* C17: in every state reached from the empty collection a record has 0
\* repetitions exactly when its interval is 3, has interval 10 when it has 1
\* repetition and an interval of at least 13 when it has 2 or more; and a record
\* never reviewed (last_review absent) has 0 repetitions.
C17_RepsAndInterval ==
    \A i \in 1 .. Len(problems) :
        LET p == problems[i]
        IN  /\ p.reps = 0 <=> p.interval = 3
            /\ p.reps = 1 => p.interval = 10
            /\ p.reps >= 2 => p.interval >= 13
            /\ p.last_review = None => p.reps = 0

\* The shortest interval of a second success (10 times the floor 1.3), and then
\* a reset of that record: reviewed before, 0 repetitions, interval 3.
C17_Witness ==
    /\ ResetDone
    /\ Before.reps = 2 /\ Before.interval = 13
    /\ After.reps = 0 /\ After.interval = 3
    /\ After.last_review # None

\* C18: from the empty collection on, a review of quality 3 or more makes the
\* interval strictly longer (3 to 10 on the first success, then longer at each
\* further success in a row), so that a call after which the record's interval
\* is shorter is a review of quality under 3 or a reset.
C18_SuccessGrows ==
    /\ (ReviewDone /\ call.q >= 3) =>
            /\ After.interval > Before.interval
            /\ Before.reps = 0 => Before.interval = 3 /\ After.interval = 10
    /\ (call.op \in {"add", "review"} /\ call.outcome = "ok" /\ Has(old, call.pid)
            /\ After.interval < Before.interval) =>
            \/ ResetDone
            \/ ReviewDone /\ call.q < 3

\* A third success in a row at the floor 1.3 of the ease factor: 13 to 17.
C18_Witness ==
    /\ ReviewDone
    /\ call.q >= 3
    /\ After.reps = 3
    /\ Before.interval = 13
    /\ After.interval = 17

\* Whether get_due on day d of the collection probs lists the record of pid.
C19_InDue(probs, pid, d) ==
    LET due == get_due(probs, d)
    IN  \E j \in 1 .. Len(due) : due[j].id = pid

\* Whether the step is a successful add_solved or record_review on pid.
C19_Mutates(pid) ==
    /\ call'.op \in {"add", "review"}
    /\ call'.outcome = "ok"
    /\ call'.pid = pid

\* C19: as days pass and calls are made, a record listed by get_due stays
\* listed until an add_solved or a record_review succeeds on its id; and right
\* after such a call on day t the record is not listed on t, nor on the day
\* before its new next_review, and is listed on that day and the day after.
C19_DueUntilDone ==
    [][/\ \A pid \in PIDs :
              (Has(problems, pid) /\ C19_InDue(problems, pid, today) /\ ~ C19_Mutates(pid))
                  => C19_InDue(problems', pid, today')
       /\ \A pid \in PIDs :
              C19_Mutates(pid) =>
                  LET nr == parse_iso(Get(problems', pid).next_review)
                  IN  \A d \in {today', nr - 1, nr, nr + 1} :
                          C19_InDue(problems', pid, d) <=> d >= nr]_vars

\* On day 4 get_due lists a record due since day 3 and not touched since, and a
\* record that lapsed on day 1 and is due again from this day.
C19_Witness ==
    /\ today = 4
    /\ call.op = "due"
    /\ Len(call.result) = 2
    /\ call.result[1].next_review = iso(3)
    /\ call.result[2].next_review = iso(4)
    /\ call.result[2].last_review = iso(1)

\* C20: for every reachable collection, on one and the same day, get_due
\* returns as many records as study_plan_summary counts in due_today; so do a
\* due list and a plan just returned.
C20_DueCount ==
    /\ Len(get_due(problems, today)) = study_plan_summary(problems, today).due_today
    /\ call.op = "due" => Len(call.result) = study_plan_summary(problems, today).due_today
    /\ call.op = "plan" => call.result.due_today = Len(get_due(problems, today))

\* A plan counting two records as due today, one of them overdue, which are the
\* two records get_due lists.
C20_Witness ==
    /\ call.op = "plan"
    /\ call.result.due_today = 2
    /\ call.result.overdue = 1
    /\ Len(get_due(problems, today)) = 2
    /\ get_due(problems, today)[2].next_review = iso(today)

====
